---- MODULE Spec2Model ----
(***************************************************************************)
(* quick-deploy: framework detection (src/core/FrameworkDetector.ts,       *)
(* src/core/ProjectAnalyzer.ts) and deployment-strategy resolution         *)
(* (legacy-bash/lib/deployers/workers.sh, src/deployers, src/builders).    *)
(*                                                                         *)
(* A project directory is a record                                         *)
(*   manifest : "absent" | "malformed" | "ok"   (package.json)             *)
(*   deps     : names with a truthy version in dependencies or             *)
(*              devDependencies (empty unless the manifest parses)         *)
(*   files    : relative paths that exist in the directory                 *)
(* A command string is the sequence of its space-separated words.          *)
(***************************************************************************)
EXTENDS Integers, Sequences, FiniteSets, TLC

VARIABLES
    cwd,          \* the process's working directory, relative to where it started
    dir,          \* contents of the working directory
    FRAMEWORKS,   \* the module-level registry object (its mutable fields)
    results,      \* outcomes of the runs made in the current directory, in order
    chdirs,       \* number of process.chdir calls so far
    deployment,   \* state of one deployment run (artifact, dispatch, scratch directory, CLI calls)
    run           \* state of one QuickDeploy.deploy() run and of the process around it

vars == <<cwd, dir, FRAMEWORKS, results, chdirs, deployment, run>>

----------------------------------------------------------------------------
(* Bounds *)

MaxSignals == 2      \* dependencies + files of the directory the process starts in
MaxSubSignals == 1   \* dependencies + files of a directory the process changes into
MaxChdir == 1        \* process.chdir calls per process
MaxRuns == 2         \* detect()/analyze() calls made in one directory

----------------------------------------------------------------------------
(* The registry: declaration order and the immutable detection signals *)

FrameworkOrder ==
    <<"angular", "nuxt", "nextjs", "astro", "svelte", "react-router", "remix", "react", "static">>

FrameworkNames == {FrameworkOrder[i] : i \in 1..Len(FrameworkOrder)}

DetectionConfigFiles(name) ==
    CASE name = "angular"      -> <<"angular.json">>
      [] name = "nuxt"         -> <<"nuxt.config.ts", "nuxt.config.js">>
      [] name = "nextjs"       -> <<"next.config.js", "next.config.mjs", "next.config.ts">>
      [] name = "astro"        -> <<"astro.config.mjs", "astro.config.js", "astro.config.ts">>
      [] name = "svelte"       -> <<"svelte.config.js">>
      [] name = "react-router" -> <<"react-router.config.ts", "react-router.config.js">>
      [] name = "remix"        -> <<"remix.config.js">>
      [] name = "react"        -> <<"vite.config.js", "vite.config.ts", "vite.config.mjs">>
      [] OTHER                 -> <<>>

DetectionDependencies(name) ==
    CASE name = "angular"      -> <<"@angular/core", "@angular/cli">>
      [] name = "nuxt"         -> <<"nuxt", "@nuxt/kit">>
      [] name = "nextjs"       -> <<"next">>
      [] name = "astro"        -> <<"astro">>
      [] name = "svelte"       -> <<"svelte", "@sveltejs/kit">>
      [] name = "react-router" -> <<"react-router", "@react-router/dev">>
      [] name = "remix"        -> <<"@remix-run/node", "@remix-run/react">>
      [] name = "react"        -> <<"vite", "react">>
      [] OTHER                 -> <<>>

NpmRunBuild == <<"npm", "run", "build">>
NpmRunDev == <<"npm", "run", "dev">>

DeclaredOutputDir(name) ==
    CASE name = "angular"      -> "dist"
      [] name = "nuxt"         -> ".output"
      [] name = "nextjs"       -> ".open-next"
      [] name = "astro"        -> "dist"
      [] name = "svelte"       -> ".svelte-kit/cloudflare"
      [] name = "react-router" -> "build"
      [] name = "remix"        -> "build"
      [] name = "react"        -> "dist"
      [] OTHER                 -> "."

\* build.command, build.outputDir and dev.command as declared; the static
\* entry declares empty commands.
DeclaredFrameworks ==
    [name \in FrameworkNames |->
        [buildCommand |-> IF name = "static" THEN <<>> ELSE NpmRunBuild,
         outputDir    |-> DeclaredOutputDir(name),
         devCommand   |-> IF name = "static" THEN <<>> ELSE NpmRunDev]]

SeqRange(s) == {s[i] : i \in 1..Len(s)}

----------------------------------------------------------------------------
(* The directories the model draws from *)

ConfigFiles == UNION {SeqRange(DetectionConfigFiles(n)) : n \in FrameworkNames}
DependencyNames == UNION {SeqRange(DetectionDependencies(n)) : n \in FrameworkNames}

staticLocations ==
    <<"index.html", "public/index.html", "dist/index.html",
      "build/index.html", "_site/index.html", "out/index.html">>

LockFiles == {"pnpm-lock.yaml", "yarn.lock", "bun.lockb"}
monorepoFiles == <<"pnpm-workspace.yaml", "turbo.json", "lerna.json">>
ExampleNames == {"blog", "docs"}
ExampleEntry(e) == IF e = "blog" THEN "examples/blog" ELSE "examples/docs"
ExampleEntries == {ExampleEntry(e) : e \in ExampleNames}

FileNames ==
    ConfigFiles \cup SeqRange(staticLocations) \cup LockFiles
        \cup SeqRange(monorepoFiles) \cup ExampleEntries \cup {"packages/core"}

RECURSIVE SubsetsUpTo(_, _)
SubsetsUpTo(S, k) ==
    IF k = 0 THEN {{}}
    ELSE LET smaller == SubsetsUpTo(S, k - 1)
         IN  smaller \cup {T \cup {x} : T \in smaller, x \in S}

Tag(kind, S) == {<<kind, x>> : x \in S}
Untag(kind, T) == {t[2] : t \in {u \in T : u[1] = kind}}

\* Every directory with at most k dependencies and files in total;
\* dependencies exist only in a manifest that parses.
Directories(k) ==
    {[manifest |-> "ok", deps |-> Untag("dep", T), files |-> Untag("file", T)] :
        T \in SubsetsUpTo(Tag("dep", DependencyNames) \cup Tag("file", FileNames), k)}
    \cup
    {[manifest |-> m, deps |-> {}, files |-> F] :
        m \in {"absent", "malformed"}, F \in SubsetsUpTo(FileNames, k)}

\* fs.pathExists(path) in the current directory; a directory exists when one
\* of its entries does.
pathExists(d, path) ==
    \/ path \in d.files
    \/ path = "examples" /\ d.files \cap ExampleEntries # {}
    \/ path = "packages" /\ "packages/core" \in d.files

----------------------------------------------------------------------------
(* FrameworkDetector *)

null == [isNull |-> TRUE, dependencies |-> {}]

\* fs.readJson('package.json') inside try/catch: any failure yields null.
readPackageJson(d) ==
    IF d.manifest = "ok" THEN [isNull |-> FALSE, dependencies |-> d.deps] ELSE null

\* The weight one matched dependency adds (the if/else-if chain of scoreFramework).
DependencyWeight(name, dep) ==
    IF name = "angular" /\ (dep = "@angular/core" \/ dep = "@angular/cli") THEN 200
    ELSE IF name = "nuxt" /\ dep = "nuxt" THEN 180
    ELSE IF name = "react-router" /\ (dep = "react-router" \/ dep = "@react-router/dev") THEN 200
    ELSE IF name = "nextjs" /\ dep = "next" THEN 150
    ELSE IF name = "astro" /\ dep = "astro" THEN 150
    ELSE IF name = "svelte" /\ dep = "@sveltejs/kit" THEN 150
    ELSE IF name = "remix" THEN 100
    ELSE IF name = "react" THEN 50
    ELSE 75

ConfigFileWeight == 100

RECURSIVE SumDependencies(_, _, _)
SumDependencies(name, depSeq, allDeps) ==
    IF depSeq = <<>> THEN 0
    ELSE (IF Head(depSeq) \in allDeps THEN DependencyWeight(name, Head(depSeq)) ELSE 0)
         + SumDependencies(name, Tail(depSeq), allDeps)

\* The config-file loop breaks at the first file that exists.
ConfigFileScore(name, d) ==
    IF \E i \in 1..Len(DetectionConfigFiles(name)) : pathExists(d, DetectionConfigFiles(name)[i])
    THEN ConfigFileWeight ELSE 0

scoreFramework(name, packageJson, d) ==
    SumDependencies(name, DetectionDependencies(name), packageJson.dependencies)
        + ConfigFileScore(name, d)

\* Array.prototype.sort with (a, b) => b.score - a.score: a stable sort,
\* descending by score.
\* A comparator that lets a later entry overtake an earlier one of equal score.
StaysAhead_TiesToLater(a, e) == a.score > e.score
\* .sort((a, b) => b.score - a.score): the sort is stable, so an entry stays
\* ahead of a later one unless the later one scores strictly more.
StaysAhead(a, e) == a.score >= e.score

RECURSIVE InsertByScore(_, _)
InsertByScore(e, sorted) ==
    IF sorted = <<>> THEN <<e>>
    ELSE IF StaysAhead(Head(sorted), e) THEN <<Head(sorted)>> \o InsertByScore(e, Tail(sorted))
    ELSE <<e>> \o sorted

RECURSIVE SortByScore(_)
SortByScore(s) ==
    IF s = <<>> THEN <<>>
    ELSE InsertByScore(s[Len(s)], SortByScore(SubSeq(s, 1, Len(s) - 1)))

\* FRAMEWORKS.filter(f => f.name !== 'static').map(score)
Scores(packageJson, d) ==
    [i \in 1..(Len(FrameworkOrder) - 1) |->
        [framework |-> FrameworkOrder[i],
         score     |-> scoreFramework(FrameworkOrder[i], packageJson, d)]]

\* A threshold that also drops the lowest single-dependency weight.
PositiveScore_AboveLowest(s) == s.score > 50

PositiveScore(s) == s.score > 0

detectPackageManager(d) ==
    IF pathExists(d, "pnpm-lock.yaml") THEN "pnpm"
    ELSE IF pathExists(d, "yarn.lock") THEN "yarn"
    ELSE IF pathExists(d, "bun.lockb") THEN "bun"
    ELSE "npm"

StartsWithNpmRun(command) == Len(command) >= 2 /\ command[1] = "npm" /\ command[2] = "run"

\* adaptCommand without the startsWith('npm run') guard: every command is
\* prefixed again.
adaptCommand_Unguarded(command, packageManager) ==
    LET script == IF StartsWithNpmRun(command) THEN SubSeq(command, 3, Len(command))
                  ELSE command
    IN  CASE packageManager = "pnpm" -> <<"pnpm", "run">> \o script
          [] packageManager = "yarn" -> <<"yarn">> \o script
          [] packageManager = "bun"  -> <<"bun", "run">> \o script
          [] OTHER                   -> command

adaptCommand(command, packageManager) ==
    IF command = <<>> \/ StartsWithNpmRun(command)
    THEN LET script == IF StartsWithNpmRun(command) THEN SubSeq(command, 3, Len(command))
                       ELSE command
         IN  CASE packageManager = "pnpm" -> <<"pnpm", "run">> \o script
               [] packageManager = "yarn" -> <<"yarn">> \o script
               [] packageManager = "bun"  -> <<"bun", "run">> \o script
               [] OTHER                   -> command
    ELSE command

\* What a caller reads from a returned configuration object.
ConfigResult(name, reg) ==
    [kind |-> "framework", name |-> name,
     buildCommand |-> reg[name].buildCommand,
     outputDir    |-> reg[name].outputDir,
     devCommand   |-> reg[name].devCommand,
     candidates   |-> {}]

NoFramework ==
    [kind |-> "none", name |-> "", buildCommand |-> <<>>, outputDir |-> "",
     devCommand |-> <<>>, candidates |-> {}]

\* location.replace('/index.html', '')
LocationDir(location) ==
    CASE location = "public/index.html" -> "public"
      [] location = "dist/index.html"   -> "dist"
      [] location = "build/index.html"  -> "build"
      [] location = "_site/index.html"  -> "_site"
      [] location = "out/index.html"    -> "out"
      [] OTHER                          -> location

\* Index of the first static location that exists, 0 when none does.
FirstStaticLocation(d) ==
    IF \E i \in 1..Len(staticLocations) : pathExists(d, staticLocations[i])
    THEN CHOOSE i \in 1..Len(staticLocations) :
            /\ pathExists(d, staticLocations[i])
            /\ \A j \in 1..(i - 1) : ~pathExists(d, staticLocations[j])
    ELSE 0

\* Returns the registry's own static entry, after writing the output
\* directory into it when the match is not the root index.html.
detectStaticSite(d, reg) ==
    LET i == FirstStaticLocation(d) IN
    IF i = 0 THEN [result |-> NoFramework, registry |-> reg]
    ELSE LET location == staticLocations[i]
             reg2 == IF location # "index.html"
                     THEN [reg EXCEPT !["static"].outputDir = LocationDir(location)]
                     ELSE reg
         IN  [result |-> ConfigResult("static", reg2), registry |-> reg2]

\* { ...framework } copies the top level only: enhanced.build and
\* enhanced.dev are the registry entry's own objects, so the two assignments
\* write into the registry.
enhanceFrameworkConfig(name, d, reg) ==
    IF name = "static" THEN [result |-> ConfigResult(name, reg), registry |-> reg]
    ELSE LET packageManager == detectPackageManager(d)
             reg2 == [reg EXCEPT
                        ![name].buildCommand = adaptCommand(reg[name].buildCommand, packageManager),
                        ![name].devCommand   = adaptCommand(reg[name].devCommand, packageManager)]
         IN  [result |-> ConfigResult(name, reg2), registry |-> reg2]

DetectorFsCalls_Caching == {"pathExists", "readJson", "writeJson"}

\* The fs-extra functions FrameworkDetector calls.
DetectorFsCalls == {"pathExists", "readJson"}

\* fs-extra functions that create, change or delete an entry.
WritingFsCalls == {"writeJson", "writeFile", "outputFile", "ensureDir", "copy", "move", "remove"}

\* The directory after a component has made its calls in it.
DirectoryAfter(d, calls) ==
    IF calls \cap WritingFsCalls = {} THEN d
    ELSE [d EXCEPT !.files = @ \cup {"(written)"}]

detect(d, reg) ==
    LET packageJson == readPackageJson(d) IN
    IF packageJson.isNull THEN detectStaticSite(d, reg)
    ELSE LET ranked == SortByScore(SelectSeq(Scores(packageJson, d), PositiveScore))
         IN  IF ranked = <<>> THEN detectStaticSite(d, reg)
             ELSE enhanceFrameworkConfig(ranked[1].framework, d, reg)

----------------------------------------------------------------------------
(* ProjectAnalyzer *)

Outcome(kind, name, outputDir, candidates) ==
    [kind |-> kind, name |-> name, buildCommand |-> <<>>, outputDir |-> outputDir,
     devCommand |-> <<>>, candidates |-> candidates]

isMonorepoRoot(d) ==
    \E i \in 1..Len(monorepoFiles) : pathExists(d, monorepoFiles[i])

\* fs.readdir of examples/ and of packages/
ExamplesListing(d) == d.files \cap ExampleEntries
PackagesListing(d) == d.files \cap {"packages/core"}

\* What the caller may type at the prompt.
Answers == {"q", "", ".."} \cup ExampleNames

\* fs.pathExists(`examples/${exampleName}`)
ExamplePathExists(d, exampleName) ==
    \/ exampleName \in ExampleNames /\ pathExists(d, ExampleEntry(exampleName))
    \/ exampleName = ".." /\ pathExists(d, "examples")

\* The first config check whose file exists decides; "" when none does.
configChecks ==
    <<[files |-> DetectionConfigFiles("astro"), framework |-> "astro"],
      [files |-> DetectionConfigFiles("nextjs"), framework |-> "nextjs"],
      [files |-> DetectionConfigFiles("react"), framework |-> "vite"],
      [files |-> <<"nuxt.config.js", "nuxt.config.ts">>, framework |-> "nuxt"],
      [files |-> <<"svelte.config.js">>, framework |-> "svelte"],
      [files |-> <<"remix.config.js">>, framework |-> "remix"]>>

CheckMatches(d, check) == \E i \in 1..Len(check.files) : pathExists(d, check.files[i])

FrameworkByConfig(d) ==
    IF \E i \in 1..Len(configChecks) : CheckMatches(d, configChecks[i])
    THEN configChecks[CHOOSE i \in 1..Len(configChecks) :
                        /\ CheckMatches(d, configChecks[i])
                        /\ \A j \in 1..(i - 1) : ~CheckMatches(d, configChecks[j])].framework
    ELSE ""

buildDirs(framework) ==
    CASE framework = "nextjs" -> "out"
      [] framework = "astro"  -> "dist"
      [] framework = "vite"   -> "dist"
      [] framework = "nuxt"   -> ".output/public"
      [] framework = "svelte" -> ".svelte-kit/output"
      [] framework = "remix"  -> "build"
      [] OTHER                -> "dist"

\* analyze() after validateProject(): readPackageJson (not caught here),
\* detectFramework, detectBuildDir.
AnalyzeInPlace(d) ==
    IF d.manifest # "ok" THEN Outcome("error", "ManifestUnreadable", "", {})
    ELSE IF FrameworkByConfig(d) # ""
         THEN Outcome("analyzed", FrameworkByConfig(d), buildDirs(FrameworkByConfig(d)), {})
    ELSE IF "astro" \in d.deps THEN Outcome("analyzed", "astro", buildDirs("astro"), {})
    ELSE IF "next" \in d.deps THEN Outcome("analyzed", "nextjs", buildDirs("nextjs"), {})
    ELSE IF "vite" \in d.deps THEN Outcome("analyzed", "vite", buildDirs("vite"), {})
    ELSE IF "nuxt" \in d.deps THEN Outcome("analyzed", "nuxt", buildDirs("nuxt"), {})
    ELSE IF "@remix-run/node" \in d.deps \/ "@remix-run/react" \in d.deps
         THEN Outcome("analyzed", "remix", buildDirs("remix"), {})
    ELSE IF d.deps # {} THEN Outcome("error", "UnknownFramework", "", {})
    ELSE Outcome("analyzed", "unknown", buildDirs("unknown"), {})

\* The branches of handleMonorepo that do not change directory.
MonorepoOutcome(d, answer) ==
    IF pathExists(d, "examples")
    THEN IF answer = "q" THEN Outcome("exit", "0", "", ExamplesListing(d))
         ELSE Outcome("error", "ExampleNotFound", "", ExamplesListing(d))
    ELSE IF pathExists(d, "packages")
         THEN Outcome("error", "FrameworkSource", "", PackagesListing(d))
         ELSE Outcome("error", "FrameworkSource", "", {})

Redirects(d, answer) ==
    /\ d.manifest # "absent"
    /\ isMonorepoRoot(d)
    /\ pathExists(d, "examples")
    /\ answer # "q" /\ answer # ""
    /\ ExamplePathExists(d, answer)

----------------------------------------------------------------------------
(* The detection process: a caller of FrameworkDetector.detect() and        *)
(* ProjectAnalyzer.analyze()                                                *)

Idle == [phase |-> "idle"]
NoRun == [outcome |-> "none"]

Running == IF Len(results) = 0 THEN TRUE ELSE results[Len(results)].kind # "exit"

Init ==
    /\ cwd = "."
    /\ dir \in Directories(MaxSignals)
    /\ FRAMEWORKS = DeclaredFrameworks
    /\ results = <<>>
    /\ chdirs = 0
    /\ deployment = Idle
    /\ run = NoRun

\* await detector.detect()
Detect ==
    /\ Running
    /\ Len(results) < MaxRuns
    /\ LET r == detect(dir, FRAMEWORKS) IN
        /\ FRAMEWORKS' = r.registry
        /\ results' = Append(results, r.result)
    /\ dir' = DirectoryAfter(dir, DetectorFsCalls)
    /\ UNCHANGED <<cwd, chdirs, deployment, run>>

\* await analyzer.analyze(), ending in the current directory without a
\* change of directory
Analyze ==
    /\ Running
    /\ Len(results) < MaxRuns
    /\ \/ /\ dir.manifest = "absent"
          /\ results' = Append(results, Outcome("error", "NoPackageJson", "", {}))
       \/ /\ dir.manifest # "absent"
          /\ ~isMonorepoRoot(dir)
          /\ results' = Append(results, AnalyzeInPlace(dir))
       \/ /\ dir.manifest # "absent"
          /\ isMonorepoRoot(dir)
          /\ \E answer \in Answers :
                /\ ~Redirects(dir, answer)
                /\ results' = Append(results, MonorepoOutcome(dir, answer))
    /\ UNCHANGED <<cwd, dir, FRAMEWORKS, chdirs, deployment, run>>

\* await analyzer.analyze() where handleMonorepo calls
\* process.chdir(`examples/${exampleName}`) and analysis continues there
AnalyzeRedirected ==
    /\ Running
    /\ Len(results) < MaxRuns
    /\ chdirs < MaxChdir
    /\ \E answer \in Answers :
        /\ Redirects(dir, answer)
        /\ \/ /\ answer # ".."
              /\ cwd' = ExampleEntry(answer)
              /\ \E sub \in Directories(MaxSubSignals) :
                    /\ dir' = sub
                    /\ results' = <<AnalyzeInPlace(sub)>>
           \/ /\ answer = ".."
              /\ cwd' = cwd
              /\ dir' = dir
              /\ results' = Append(results, AnalyzeInPlace(dir))
    /\ chdirs' = chdirs + 1
    /\ UNCHANGED <<FRAMEWORKS, deployment, run>>

\* The caller changes directory between two detections.
Chdir ==
    /\ Running
    /\ results # <<>>
    /\ chdirs < MaxChdir
    /\ \E other \in Directories(MaxSubSignals) :
        /\ other # dir
        /\ dir' = other
    /\ cwd' = "../temp-test"
    /\ results' = <<>>
    /\ chdirs' = chdirs + 1
    /\ UNCHANGED <<FRAMEWORKS, deployment, run>>

\* A process that calls FrameworkDetector.detect(), possibly in several
\* directories.
Next == Detect \/ Chdir

Spec == Init /\ [][Next]_vars

\* A process that runs either front end, QuickDeploy over FrameworkDetector
\* or QuickDeploy over ProjectAnalyzer, in the directory it was started in.
NextAnalyzer == Detect \/ Analyze \/ AnalyzeRedirected

SpecAnalyzer == Init /\ [][NextAnalyzer]_vars

----------------------------------------------------------------------------
(* Deployment: build artifact, strategy resolution and the deployment CLI  *)
(*                                                                         *)
(* deployment is a record                                                  *)
(*   impl           : "bash" (workers.sh), "deployer" (CloudflareDeployer  *)
(*                    keyed by framework) or "deployer-by-type"            *)
(*                    (CloudflareDeployer keyed by deployment type)        *)
(*   phase          : "built" | "done"                                     *)
(*   FRAMEWORK      : the framework identifier handed to the deploy step   *)
(*   buildFiles     : files in the build directory                         *)
(*   openNext       : whether .open-next exists, and its files             *)
(*   projectConfig  : wrangler config files in the project directory       *)
(*   deploymentType : the builder's classification                         *)
(*   handler        : the topology handler deploy_to_cloudflare selected   *)
(*   manifest       : the serving manifest in effect for the CLI           *)
(*   tempDir        : the scratch directory                                *)
(*   cliCalls       : the 'wrangler deploy' invocations, in order          *)
(*   assetsIgnore   : how far the write of .assetsignore had come when     *)
(*                    the CLI was started: "none" (never started),         *)
(*                    "pending", "written" or "failed" (failure logged)    *)
(*   status, warnings                                                      *)

ArtifactFiles == {"_worker.js/index.js", "index.html", "_routes.json", "assets/app.css", ".assetsignore"}
OpenNextFiles == {"worker.js", "assets/chunk.js"}
BashFrameworks == {"astro", "opennext", "vite"}
BuilderFrameworks == {"astro", "svelte", "angular", "remix"}

\* The framework names CloudflareDeployer.deploy is handed; "vite" stands
\* for a name without a case of its own.
DeployerFrameworks ==
    BuilderFrameworks \cup {"nextjs", "nuxt", "react", "react-router", "static", "vite"}

\* createAssetsIgnore is called without await: when the CLI is started its
\* ensureDir and writeFile may be outstanding, done, or failed and logged.
AssetsIgnoreStates == {"pending", "written", "failed"}

\* First component of a path.
TopEntry(f) ==
    CASE f = "_worker.js/index.js" -> "_worker.js"
      [] f = "assets/app.css"      -> "assets"
      [] f = "assets/chunk.js"     -> "assets"
      [] OTHER                     -> f

\* cp -r "$SRC"/* "$TEMP_DIR"/ : the glob * does not match dot entries.
CopyGlob(files) == {f \in files : TopEntry(f) # ".assetsignore"}

NoManifest == [main |-> "", flags |-> <<>>, binding |-> "", directory |-> "", notFound |-> ""]
NoTempDir == [state |-> "none", files |-> {}]

CliCall(where, args, manifest, files) ==
    [cwd |-> where, args |-> args, main |-> manifest.main, files |-> files]

\* The if/elif chain of deploy_to_cloudflare.
Dispatch_SsrFirst(d) ==
    IF "_worker.js/index.js" \in d.buildFiles THEN "ssr"
    ELSE IF "_worker.js/index.js" \in d.buildFiles /\ "index.html" \in d.buildFiles THEN "hybrid"
    ELSE IF d.FRAMEWORK = "opennext" /\ d.openNext.exists THEN "opennext"
    ELSE IF "index.html" \in d.buildFiles THEN "static"
    ELSE "unknown"

Dispatch(d) ==
    IF "_worker.js/index.js" \in d.buildFiles /\ "index.html" \in d.buildFiles THEN "hybrid"
    ELSE IF "_worker.js/index.js" \in d.buildFiles THEN "ssr"
    ELSE IF d.FRAMEWORK = "opennext" /\ d.openNext.exists THEN "opennext"
    ELSE IF "index.html" \in d.buildFiles THEN "static"
    ELSE "unknown"

deploy_hybrid_build(d, deployOk) ==
    LET copied == CopyGlob(d.buildFiles)
        stripped == {f \in copied : TopEntry(f) # "_worker.js" /\ f # "_routes.json"}
        temp == stripped \cup {"wrangler.toml", "index.js"}
        toml == [NoManifest EXCEPT !.main = "index.js", !.directory = "."]
    IN  [d EXCEPT !.handler = "hybrid",
                  !.manifest = toml,
                  !.cliCalls = Append(@, CliCall("scratch", "deploy", toml, temp)),
                  !.tempDir = [state |-> "removed", files |-> {}],
                  !.status = IF deployOk THEN "success" ELSE "failed",
                  !.phase = "done"]

deploy_ssr_build_SyntheticWorker(d, deployOk) ==
    LET temp == CopyGlob(d.buildFiles) \cup {"wrangler.toml", "index.js"}
        toml == [NoManifest EXCEPT !.main = "index.js"]
        call == CliCall("scratch", "deploy", toml, temp)
    IN  [d EXCEPT !.handler = "ssr",
                  !.manifest = toml,
                  !.cliCalls = IF deployOk THEN @ \o <<call, call>> ELSE Append(@, call),
                  !.tempDir = [state |-> "removed", files |-> {}],
                  !.status = IF deployOk THEN "success" ELSE "failed",
                  !.phase = "done"]

\* On success the CLI is run a second time to capture the URL.
deploy_ssr_build(d, deployOk) ==
    LET temp == CopyGlob(d.buildFiles) \cup {"wrangler.toml"}
        toml == [NoManifest EXCEPT !.main = "_worker.js/index.js"]
        call == CliCall("scratch", "deploy", toml, temp)
    IN  [d EXCEPT !.handler = "ssr",
                  !.manifest = toml,
                  !.cliCalls = IF deployOk THEN @ \o <<call, call>> ELSE Append(@, call),
                  !.tempDir = [state |-> "removed", files |-> {}],
                  !.status = IF deployOk THEN "success" ELSE "failed",
                  !.phase = "done"]

deploy_opennext_build_FallThrough(d, deployOk) ==
    LET copied == CopyGlob(d.openNext.files) IN
    IF "worker.js" \in copied
    THEN LET temp == copied \cup {"wrangler.toml"}
             toml == [main |-> "worker.js", flags |-> <<"nodejs_compat">>,
                      binding |-> "ASSETS", directory |-> "assets", notFound |-> ""]
         IN  [d EXCEPT !.handler = "opennext",
                       !.manifest = toml,
                       !.cliCalls = Append(@, CliCall("scratch", "deploy", toml, temp)),
                       !.tempDir = [state |-> "removed", files |-> {}],
                       !.status = IF deployOk THEN "success" ELSE "failed",
                       !.phase = "done"]
    ELSE [d EXCEPT !.handler = "unknown",
                   !.warnings = @ \cup {"Unknown build structure"},
                   !.cliCalls = Append(@, CliCall("project", "deploy --assets", NoManifest, d.buildFiles)),
                   !.tempDir = [state |-> "removed", files |-> {}],
                   !.status = IF deployOk THEN "success" ELSE "exit:could-not-deploy",
                   !.phase = "done"]

\* Without worker.js the handler leaves through exit_with_help.
deploy_opennext_build(d, deployOk) ==
    LET copied == CopyGlob(d.openNext.files) IN
    IF "worker.js" \in copied
    THEN LET temp == copied \cup {"wrangler.toml"}
             toml == [main |-> "worker.js", flags |-> <<"nodejs_compat">>,
                      binding |-> "ASSETS", directory |-> "assets", notFound |-> ""]
         IN  [d EXCEPT !.handler = "opennext",
                       !.manifest = toml,
                       !.cliCalls = Append(@, CliCall("scratch", "deploy", toml, temp)),
                       !.tempDir = [state |-> "removed", files |-> {}],
                       !.status = IF deployOk THEN "success" ELSE "failed",
                       !.phase = "done"]
    ELSE [d EXCEPT !.handler = "opennext",
                   !.tempDir = [state |-> "exists", files |-> copied],
                   !.status = "exit:opennext-incomplete",
                   !.phase = "done"]

deploy_static_build_Isolated(d, deployOk) ==
    LET temp == CopyGlob(d.buildFiles) IN
    [d EXCEPT !.handler = "static",
              !.cliCalls = Append(@, CliCall("scratch", "deploy --assets", NoManifest, temp)),
              !.tempDir = [state |-> "removed", files |-> {}],
              !.status = IF deployOk THEN "success" ELSE "exit:deployment-unsuccessful",
              !.phase = "done"]

deploy_static_build(d, deployOk) ==
    [d EXCEPT !.handler = "static",
              !.cliCalls = Append(@, CliCall("project", "deploy --assets", NoManifest, d.buildFiles)),
              !.status = IF deployOk THEN "success" ELSE "exit:deployment-unsuccessful",
              !.phase = "done"]

deploy_unknown_build(d, deployOk) ==
    [d EXCEPT !.handler = "unknown",
              !.warnings = @ \cup {"Unknown build structure"},
              !.cliCalls = Append(@, CliCall("project", "deploy --assets", NoManifest, d.buildFiles)),
              !.status = IF deployOk THEN "success" ELSE "exit:could-not-deploy",
              !.phase = "done"]

deploy_to_cloudflare(d, wranglerFound, installOk, loggedIn, deployOk) ==
    IF ~wranglerFound /\ ~installOk
    THEN [d EXCEPT !.status = "exit:wrangler-install", !.phase = "done"]
    ELSE IF ~loggedIn
    THEN [d EXCEPT !.status = "exit:not-logged-in", !.phase = "done"]
    ELSE CASE Dispatch(d) = "hybrid"   -> deploy_hybrid_build(d, deployOk)
           [] Dispatch(d) = "ssr"      -> deploy_ssr_build(d, deployOk)
           [] Dispatch(d) = "opennext" -> deploy_opennext_build(d, deployOk)
           [] Dispatch(d) = "static"   -> deploy_static_build(d, deployOk)
           [] OTHER                    -> deploy_unknown_build(d, deployOk)

\* The status deploy_to_cloudflare ends with: exit_with_help calls exit 1;
\* on every other path the last command of the handler (print_success,
\* echo, or rm -rf "$TEMP_DIR") gives 0.
ReturnStatus(d) == IF d.status \in {"success", "failed"} THEN 0 ELSE 1

\* AstroBuilder.determineDeploymentType
determineDeploymentType(buildFiles) ==
    IF "_worker.js/index.js" \in buildFiles
    THEN IF "index.html" \in buildFiles THEN "hybrid" ELSE "ssr"
    ELSE "static"

\* The deployment type each builder reports.
BuilderDeploymentType(framework, buildFiles) ==
    IF framework = "astro" THEN determineDeploymentType(buildFiles)
    ELSE IF framework \in {"react", "vite", "static"} THEN "static"
    ELSE "ssr"

\* CloudflareDeployer.generateConfigForFramework; the second component says
\* whether createAssetsIgnore was started.
generateConfigForFramework(framework, deploymentType) ==
    CASE framework = "astro" ->
            IF deploymentType = "ssr" \/ deploymentType = "hybrid"
            THEN <<[main |-> "./dist/_worker.js/index.js",
                    flags |-> <<"nodejs_compat", "global_fetch_strictly_public">>,
                    binding |-> "ASSETS", directory |-> "./dist", notFound |-> ""], TRUE>>
            ELSE <<[NoManifest EXCEPT !.notFound = "single-page-application"], FALSE>>
      [] framework = "angular" ->
            <<[NoManifest EXCEPT !.directory = "./dist",
                                 !.notFound = "single-page-application"], FALSE>>
      [] framework = "remix" ->
            <<[NoManifest EXCEPT !.main = "./server.ts", !.flags = <<"nodejs_compat">>,
                                 !.directory = "./build/client"], TRUE>>
      [] framework = "svelte" ->
            <<[main |-> ".svelte-kit/cloudflare/_worker.js", flags |-> <<"nodejs_als">>,
               binding |-> "ASSETS", directory |-> ".svelte-kit/cloudflare", notFound |-> ""], FALSE>>
      [] framework = "static" ->
            <<[NoManifest EXCEPT !.main = "./worker.js", !.binding = "ASSETS",
                                 !.directory = "buildDir"], FALSE>>
      [] framework = "nuxt" ->
            <<[NoManifest EXCEPT !.main = "./.output/server/index.mjs", !.binding = "ASSETS",
                                 !.directory = "./.output/public/"], FALSE>>
      [] framework = "nextjs" ->
            <<[main |-> ".open-next/worker.js",
               flags |-> <<"nodejs_compat", "global_fetch_strictly_public">>,
               binding |-> "ASSETS", directory |-> ".open-next/assets", notFound |-> ""], FALSE>>
      [] framework = "react" ->
            <<[NoManifest EXCEPT !.main = "worker/index.js",
                                 !.notFound = "single-page-application"], FALSE>>
      [] framework = "react-router" ->
            <<[main |-> "./build/server/index.js", flags |-> <<"nodejs_compat">>,
               binding |-> "ASSETS", directory |-> "./build/client", notFound |-> ""], FALSE>>
      [] OTHER ->
            <<[NoManifest EXCEPT !.notFound = "single-page-application"], FALSE>>

WritesWranglerConfig_OverrideAll(framework, projectConfig) ==
    IF framework = "svelte" \/ framework = "static" THEN FALSE
    ELSE IF framework \notin {"nextjs", "astro", "nuxt", "angular"} /\ "wrangler.jsonc" \in projectConfig
    THEN FALSE
    ELSE TRUE

\* createWranglerConfig: TRUE when wrangler.jsonc is (re)written.
WritesWranglerConfig(framework, projectConfig) ==
    IF framework = "svelte" \/ framework = "static" THEN FALSE
    ELSE IF framework \in {"angular", "react-router", "react"} /\ "wrangler.jsonc" \in projectConfig
    THEN FALSE
    ELSE IF framework \notin {"nextjs", "astro", "nuxt", "angular"} /\ "wrangler.jsonc" \in projectConfig
    THEN FALSE
    ELSE TRUE

\* A configuration file that was in the project before the run.
Preexisting == [NoManifest EXCEPT !.main = "preexisting"]

\* CloudflareDeployer.deploy, keyed by framework: runs the CLI in the
\* project directory. ignoreState: how far the un-awaited
\* createAssetsIgnore has come when the CLI starts.
CloudflareDeployer_deploy(d, wranglerOk, deployOk, ignoreState) ==
    LET type == BuilderDeploymentType(d.FRAMEWORK, d.buildFiles)
        generated == generateConfigForFramework(d.FRAMEWORK, type)
        writes == WritesWranglerConfig(d.FRAMEWORK, d.projectConfig)
        manifest == IF writes THEN generated[1]
                    ELSE IF d.projectConfig # {} THEN Preexisting ELSE NoManifest
        started == writes /\ generated[2]
        files == IF started /\ ignoreState = "written" /\ d.FRAMEWORK = "astro"
                 THEN d.buildFiles \cup {".assetsignore"} ELSE d.buildFiles
    IN  IF ~wranglerOk
        THEN [d EXCEPT !.deploymentType = type, !.status = "failed", !.phase = "done"]
        ELSE [d EXCEPT !.deploymentType = type,
                       !.manifest = manifest,
                       !.projectConfig = IF writes THEN @ \cup {"wrangler.jsonc"} ELSE @,
                       !.buildFiles = files,
                       !.assetsIgnore = IF started THEN ignoreState ELSE "none",
                       !.cliCalls = Append(@, CliCall("project", "deploy", manifest, files)),
                       !.status = IF deployOk THEN "success" ELSE "failed",
                       !.phase = "done"]

\* CloudflareDeployer.generateWranglerConfig, keyed by deployment type.
generateWranglerConfig(deploymentType) ==
    CASE deploymentType = "static" -> [NoManifest EXCEPT !.directory = "buildDir"]
      [] deploymentType = "ssr"    -> [NoManifest EXCEPT !.main = "buildDir/_worker.js/index.js"]
      [] deploymentType = "hybrid" ->
            [NoManifest EXCEPT !.main = "buildDir/_worker.js/index.js",
                               !.directory = "buildDir", !.binding = "ASSETS"]
      [] deploymentType = "opennext" ->
            [main |-> ".open-next/worker.js", flags |-> <<"nodejs_compat">>,
             binding |-> "ASSETS", directory |-> ".open-next/assets", notFound |-> ""]
      [] OTHER -> NoManifest

\* CloudflareDeployer.deploy, keyed by deployment type.
CloudflareDeployer_deployByType(d, wranglerOk, deployOk) ==
    LET type == BuilderDeploymentType(d.FRAMEWORK, d.buildFiles)
        writes == d.projectConfig = {}
        manifest == IF writes THEN generateWranglerConfig(type) ELSE Preexisting
    IN  IF ~wranglerOk
        THEN [d EXCEPT !.deploymentType = type, !.status = "failed", !.phase = "done"]
        ELSE [d EXCEPT !.deploymentType = type,
                       !.manifest = manifest,
                       !.projectConfig = IF writes THEN {"wrangler.jsonc"} ELSE @,
                       !.cliCalls = Append(@, CliCall("project", "deploy", manifest, d.buildFiles)),
                       !.status = IF deployOk THEN "success" ELSE "failed",
                       !.phase = "done"]

Built(impl, framework, buildFiles, openNext, projectConfig) ==
    [impl |-> impl, phase |-> "built", FRAMEWORK |-> framework,
     buildFiles |-> buildFiles, openNext |-> openNext, projectConfig |-> projectConfig,
     deploymentType |-> "", handler |-> "", manifest |-> NoManifest,
     tempDir |-> NoTempDir, cliCalls |-> <<>>, assetsIgnore |-> "none",
     status |-> "", warnings |-> {}]

NoOpenNext == [exists |-> FALSE, files |-> {}]
OpenNextDirs == {NoOpenNext} \cup {[exists |-> TRUE, files |-> F] : F \in SUBSET OpenNextFiles}

\* setup_opennext sets FRAMEWORK="opennext" together with
\* BUILD_DIR="./.open-next": under that hint the build directory is the
\* adapter's output directory.
SignatureFiles == {"_worker.js/index.js", "index.html"}
OpenNextBuildDirs ==
    {NoOpenNext} \cup
    {[exists |-> TRUE, files |-> F] : F \in SUBSET (OpenNextFiles \cup SignatureFiles)}

ProjectConfigs == {{}, {"wrangler.jsonc"}, {"wrangler.toml"}}

InitDeploy ==
    /\ cwd = "."
    /\ dir = [manifest |-> "ok", deps |-> {}, files |-> {}]
    /\ FRAMEWORKS = DeclaredFrameworks
    /\ results = <<>>
    /\ chdirs = 0
    /\ run = NoRun
    /\ \E buildFiles \in SUBSET ArtifactFiles :
        \/ \E framework \in BashFrameworks \ {"opennext"}, openNext \in OpenNextDirs :
              deployment = Built("bash", framework, buildFiles, openNext, {})
        \/ \E openNext \in OpenNextBuildDirs :
              deployment = Built("bash", "opennext", openNext.files, openNext, {})
        \/ \E framework \in BuilderFrameworks, projectConfig \in ProjectConfigs :
              deployment = Built("deployer-by-type", framework, buildFiles, NoOpenNext, projectConfig)
        \/ \E framework \in DeployerFrameworks, projectConfig \in ProjectConfigs :
              deployment = Built("deployer", framework, buildFiles, NoOpenNext, projectConfig)

DeployToCloudflare ==
    /\ deployment.impl = "bash"
    /\ deployment.phase = "built"
    /\ \E wranglerFound, installOk, loggedIn, deployOk \in BOOLEAN :
        deployment' = deploy_to_cloudflare(deployment, wranglerFound, installOk, loggedIn, deployOk)
    /\ UNCHANGED <<cwd, dir, FRAMEWORKS, results, chdirs, run>>

CloudflareDeploy ==
    /\ deployment.impl = "deployer"
    /\ deployment.phase = "built"
    /\ \E wranglerOk, deployOk \in BOOLEAN, ignoreState \in AssetsIgnoreStates :
        deployment' = CloudflareDeployer_deploy(deployment, wranglerOk, deployOk, ignoreState)
    /\ UNCHANGED <<cwd, dir, FRAMEWORKS, results, chdirs, run>>

CloudflareDeployByType ==
    /\ deployment.impl = "deployer-by-type"
    /\ deployment.phase = "built"
    /\ \E wranglerOk, deployOk \in BOOLEAN :
        deployment' = CloudflareDeployer_deployByType(deployment, wranglerOk, deployOk)
    /\ UNCHANGED <<cwd, dir, FRAMEWORKS, results, chdirs, run>>

NextDeploy == DeployToCloudflare \/ CloudflareDeploy \/ CloudflareDeployByType

SpecDeploy == InitDeploy /\ [][NextDeploy]_vars

----------------------------------------------------------------------------
(* Orchestration: QuickDeploy.deploy() and the command-line entry point    *)
(*                                                                         *)
(* run is a record                                                         *)
(*   impl       : "detector" (QuickDeploy over FrameworkDetector) or       *)
(*                "analyzer" (QuickDeploy over ProjectAnalyzer)            *)
(*   skipDependencies, skipEnvironmentCheck : the --skip-deps and          *)
(*                --skip-env options                                       *)
(*   hasNodeModules : whether node_modules exists                          *)
(*   framework  : the variant detection returned, "" before that           *)
(*   active     : the steps in progress                                    *)
(*   started    : the steps begun, in order                                *)
(*   outcome    : "running" | "success" | "failure" | "exit"               *)
(*   error      : what the run failed with                                 *)
(*   supported  : the variants the error message lists                     *)
(*   exitCode   : the process exit code, NoExitCode while there is none    *)
(*   earlier    : error and exit code of the runs made before this one     *)

\* The projects the command is run in.
PipelineProjects ==
    {[manifest |-> "ok", deps |-> {"astro"}, files |-> {}],
     [manifest |-> "ok", deps |-> {"react"}, files |-> {"yarn.lock"}],
     [manifest |-> "ok", deps |-> {}, files |-> {"index.html"}],
     [manifest |-> "ok", deps |-> {}, files |-> {}],
     [manifest |-> "absent", deps |-> {}, files |-> {}],
     [manifest |-> "ok", deps |-> {}, files |-> {"pnpm-workspace.yaml", "examples/blog"}],
     [manifest |-> "ok", deps |-> {}, files |-> {"turbo.json", "packages/core"}]}

PipelineSteps ==
    <<"detect", "install", "environment", "configure", "build", "resolve", "deploy">>

StepIndex(step) == CHOOSE i \in 1..Len(PipelineSteps) : PipelineSteps[i] = step

Last(s) == s[Len(s)]

\* The cases of the switch in BuilderFactory.create.
BuilderNames ==
    {"astro", "nextjs", "react", "vite", "react-router", "remix", "svelte", "nuxt", "angular"}

DetectorSupported ==
    {"Angular", "Astro", "Next.js", "Nuxt", "React", "React Router", "Remix",
     "SvelteKit", "Static HTML sites"}

AnalyzerSupported == {"Astro", "Next.js", "Vite", "Nuxt", "SvelteKit", "Remix"}

NoExitCode == 0 - 1

NewRun(impl, skipDependencies, skipEnvironmentCheck, hasNodeModules, earlier) ==
    [impl |-> impl, skipDependencies |-> skipDependencies,
     skipEnvironmentCheck |-> skipEnvironmentCheck, hasNodeModules |-> hasNodeModules,
     framework |-> "", active |-> {}, started |-> <<>>, outcome |-> "running",
     error |-> "", supported |-> {}, exitCode |-> NoExitCode, earlier |-> earlier]

NewRuns(earlier) ==
    {NewRun("detector", s, FALSE, n, earlier) : s \in BOOLEAN, n \in BOOLEAN}
    \cup {NewRun("analyzer", s, e, FALSE, earlier) : s \in BOOLEAN, e \in BOOLEAN}

\* The statement of deploy() that follows the last step begun.
NextStep(r) ==
    LET last == IF r.started = <<>> THEN "" ELSE Last(r.started) IN
    IF r.impl = "detector"
    THEN CASE last = ""          -> "detect"
           [] last = "detect"    ->
                IF r.framework # "static" /\ ~r.skipDependencies /\ ~r.hasNodeModules
                THEN "install" ELSE "configure"
           [] last = "install"   -> "configure"
           [] last = "configure" -> "build"
           [] last = "build"     -> "resolve"
           [] last = "resolve"   -> "deploy"
           [] OTHER              -> "finish"
    ELSE LET afterInstall == IF r.skipEnvironmentCheck THEN "build" ELSE "environment" IN
         CASE last = ""            -> "detect"
           [] last = "detect"      -> IF r.skipDependencies THEN afterInstall ELSE "install"
           [] last = "install"     -> afterInstall
           [] last = "environment" -> "build"
           [] last = "build"       -> "resolve"
           [] last = "resolve"     -> "deploy"
           [] OTHER                -> "finish"

\* throw new Error(...), caught and rethrown by deploy()
Fail(r, error, supported) ==
    [r EXCEPT !.active = {}, !.outcome = "failure", !.error = error, !.supported = supported]

Awaited_FireAndForget(r) == TRUE

\* Every call deploy() makes is awaited: the next statement runs when no
\* step is in progress.
Awaited(r) == r.active = {}

\* The step before which BuilderFactory.create is called.
NeedsBuilder(r, step) ==
    \/ r.impl = "detector" /\ step = "configure"
    \/ r.impl = "analyzer" /\ step = "build"

\* The outcomes of analyze() that end in the directory the run started in.
AnalyzeOutcomes(d) ==
    IF d.manifest = "absent" THEN {Outcome("error", "NoPackageJson", "", {})}
    ELSE IF isMonorepoRoot(d)
         THEN {MonorepoOutcome(d, answer) : answer \in {a \in Answers : ~Redirects(d, a)}}
         ELSE {AnalyzeInPlace(d)}

InitPipeline ==
    /\ cwd = "."
    /\ dir \in PipelineProjects
    /\ FRAMEWORKS = DeclaredFrameworks
    /\ results = <<>>
    /\ chdirs = 0
    /\ deployment = Idle
    /\ run \in NewRuns({})

\* deploy() reaches its next awaited call; BuilderFactory.create throws for
\* an identifier it has no case for.
BeginStep ==
    /\ run.outcome = "running"
    /\ Awaited(run)
    /\ NextStep(run) # "finish"
    /\ LET step == NextStep(run) IN
        run' = IF NeedsBuilder(run, step) /\ run.framework \notin BuilderNames
               THEN Fail(run, "UnsupportedFramework", {})
               ELSE [run EXCEPT !.active = @ \cup {step}, !.started = Append(@, step)]
    /\ UNCHANGED <<cwd, dir, FRAMEWORKS, results, chdirs, deployment>>

\* await this.detector.detect() returns
EndDetect ==
    /\ run.outcome = "running"
    /\ run.impl = "detector"
    /\ "detect" \in run.active
    /\ LET r == detect(dir, FRAMEWORKS) IN
        /\ FRAMEWORKS' = r.registry
        /\ run' = IF r.result.kind = "none"
                  THEN Fail(run, "NoFramework", DetectorSupported)
                  ELSE [run EXCEPT !.active = @ \ {"detect"}, !.framework = r.result.name]
    /\ dir' = DirectoryAfter(dir, DetectorFsCalls)
    /\ UNCHANGED <<cwd, results, chdirs, deployment>>

\* await this.projectAnalyzer.analyze() returns, throws or exits
EndAnalyze ==
    /\ run.outcome = "running"
    /\ run.impl = "analyzer"
    /\ "detect" \in run.active
    /\ \E o \in AnalyzeOutcomes(dir) :
        run' = CASE o.kind = "exit"  ->
                      [run EXCEPT !.active = {}, !.outcome = "exit",
                                  !.error = "MonorepoQuit", !.exitCode = 0]
                 [] o.kind = "error" ->
                      Fail(run, o.name,
                           IF o.name = "UnknownFramework" THEN AnalyzerSupported ELSE {})
                 [] OTHER            ->
                      [run EXCEPT !.active = @ \ {"detect"}, !.framework = o.name]
    /\ UNCHANGED <<cwd, dir, FRAMEWORKS, results, chdirs, deployment>>

\* An awaited install, environment check, configure, build or deploy
\* returns or throws; determineDeploymentType only returns.
EndStep ==
    /\ run.outcome = "running"
    /\ \E step \in run.active \ {"detect"}, ok \in BOOLEAN :
        run' = IF ~ok /\ step # "resolve" THEN Fail(run, step, {})
               ELSE IF step = "deploy"
                    THEN [run EXCEPT !.active = @ \ {step}, !.outcome = "success"]
                    ELSE [run EXCEPT !.active = @ \ {step}]
    /\ UNCHANGED <<cwd, dir, FRAMEWORKS, results, chdirs, deployment>>

\* program.action: process.exit(0) after deploy() resolves, process.exit(1)
\* in the catch block.
ProcessExit ==
    /\ run.outcome \in {"success", "failure"}
    /\ run.exitCode = NoExitCode
    /\ run' = [run EXCEPT !.exitCode = IF run.outcome = "success" THEN 0 ELSE 1]
    /\ UNCHANGED <<cwd, dir, FRAMEWORKS, results, chdirs, deployment>>

\* The command is run again, in a new process and possibly another project.
RunAgain ==
    /\ run.outcome # "none"
    /\ run.exitCode # NoExitCode
    /\ Cardinality(run.earlier) < MaxRuns - 1
    /\ dir' \in PipelineProjects
    /\ run' \in NewRuns(run.earlier \cup {[error |-> run.error, exitCode |-> run.exitCode]})
    /\ FRAMEWORKS' = DeclaredFrameworks
    /\ UNCHANGED <<cwd, results, chdirs, deployment>>

NextPipeline == BeginStep \/ EndDetect \/ EndAnalyze \/ EndStep \/ ProcessExit \/ RunAgain

SpecPipeline == InitPipeline /\ [][NextPipeline]_vars

----------------------------------------------------------------------------
(* Properties of detection *)

ScoredFrameworks == FrameworkNames \ {"static"}
MetaFrameworks == ScoredFrameworks \ {"react"}

IsDetectResult(r) == r.kind \in {"framework", "none"}

HasSignal(name, d) ==
    \/ d.deps \cap SeqRange(DetectionDependencies(name)) # {}
    \/ \E i \in 1..Len(DetectionConfigFiles(name)) : pathExists(d, DetectionConfigFiles(name)[i])

Flagship(name) ==
    CASE name = "angular"      -> "@angular/core"
      [] name = "nuxt"         -> "nuxt"
      [] name = "nextjs"       -> "next"
      [] name = "astro"        -> "astro"
      [] name = "svelte"       -> "@sveltejs/kit"
      [] name = "react-router" -> "react-router"
      [] name = "remix"        -> "@remix-run/react"
      [] OTHER                 -> "react"

OnlyFlagship(d, name) ==
    /\ d.manifest = "ok"
    /\ d.deps = {Flagship(name)}
    /\ d.files \cap ConfigFiles = {}

\* C1: a project whose manifest lists only variant V's flagship dependency,
\* with no config file, scores above zero for V and every detect() in it
\* returns V.
C1_FlagshipDetected ==
    \A name \in ScoredFrameworks :
        OnlyFlagship(dir, name) =>
            /\ scoreFramework(name, readPackageJson(dir), dir) > 0
            /\ \A i \in 1..Len(results) :
                  results[i].kind = "framework" /\ results[i].name = name

C1_Witness ==
    /\ OnlyFlagship(dir, "react")
    /\ Len(results) >= 1
    /\ results[1].name = "react"

\* C2: a project with a signal of a meta-framework A, any of the generic
\* react variant's signals and no signal of a third variant is detected as A.
C2_MetaFrameworkOutranksReact ==
    \A name \in MetaFrameworks :
        ( /\ dir.manifest = "ok"
          /\ HasSignal(name, dir)
          /\ \A other \in MetaFrameworks \ {name} : ~HasSignal(other, dir) )
        => \A i \in 1..Len(results) :
              results[i].kind = "framework" /\ results[i].name = name

IsMonorepoOutcome(r) ==
    \/ r.kind = "exit"
    \/ r.kind = "error" /\ r.name \in {"ExampleNotFound", "FrameworkSource"}

\* C3: in a directory with a manifest and a monorepo marker, every run ends
\* with a monorepo outcome that lists the entries of examples/; the
\* directory itself is never classified.
C3_MonorepoRootNeverClassified ==
    (cwd = "." /\ dir.manifest # "absent" /\ isMonorepoRoot(dir)) =>
        \A i \in 1..Len(results) :
            /\ IsMonorepoOutcome(results[i])
            /\ pathExists(dir, "examples") => results[i].candidates = ExamplesListing(dir)

C4_CandidateOrder ==
    <<"index.html", "public/index.html", "dist/index.html",
      "build/index.html", "_site/index.html", "out/index.html">>

C4_CandidateDir ==
    <<".", "public", "dist", "build", "_site", "out">>

AllScoresZero(d) ==
    \A name \in ScoredFrameworks : scoreFramework(name, readPackageJson(d), d) = 0

\* C4: when detection falls to static-site detection, the result is the
\* static variant with the directory of the first existing candidate (in
\* the fixed order) as output directory, '.' for a root index.html, and no
\* framework when no candidate exists.
C4_StaticFirstMatch ==
    (dir.manifest # "ok" \/ AllScoresZero(dir)) =>
        \A i \in 1..Len(results) :
            IsDetectResult(results[i]) =>
                IF \E k \in 1..6 : C4_CandidateOrder[k] \in dir.files
                THEN LET first == CHOOSE k \in 1..6 :
                                    /\ C4_CandidateOrder[k] \in dir.files
                                    /\ \A j \in 1..(k - 1) : C4_CandidateOrder[j] \notin dir.files
                     IN  /\ results[i].kind = "framework"
                         /\ results[i].name = "static"
                         /\ results[i].outputDir = C4_CandidateDir[first]
                ELSE results[i].kind = "none"

\* C5: without a manifest no run fails with an error; the result is the
\* static variant or 'no framework detected', never a scored variant.
C5_NoManifestStaticOnly ==
    dir.manifest = "absent" =>
        \A i \in 1..Len(results) :
            \/ results[i].kind = "none"
            \/ results[i].kind = "framework" /\ results[i].name = "static"

\* C6: with a manifest that cannot be parsed, detection ends in a
\* manifest-malformed failure and never in a static-site or
\* no-framework result.
C6_MalformedManifestIsTerminal ==
    dir.manifest = "malformed" =>
        \A i \in 1..Len(results) :
            results[i].kind = "error" /\ results[i].name = "ManifestUnreadable"

\* C7: all detect() calls made in one unchanged directory return the same
\* variant name, output directory, build command and dev command.
C7_DetectIdempotent ==
    \A i, j \in 1..Len(results) :
        (IsDetectResult(results[i]) /\ IsDetectResult(results[j])) =>
            /\ results[i].kind = results[j].kind
            /\ results[i].name = results[j].name
            /\ results[i].outputDir = results[j].outputDir
            /\ results[i].buildCommand = results[j].buildCommand
            /\ results[i].devCommand = results[j].devCommand

C7_Witness ==
    /\ Len(results) = 2
    /\ results[1].kind = "framework"
    /\ results[1].buildCommand = <<"yarn", "build">>
    /\ results[2].buildCommand = <<"yarn", "build">>

\* C8: every registry entry keeps the build command, output directory and
\* dev command it was declared with.
C8_RegistryImmutable ==
    \A name \in FrameworkNames :
        /\ FRAMEWORKS[name].buildCommand = DeclaredFrameworks[name].buildCommand
        /\ FRAMEWORKS[name].outputDir = DeclaredFrameworks[name].outputDir
        /\ FRAMEWORKS[name].devCommand = DeclaredFrameworks[name].devCommand

----------------------------------------------------------------------------
(* Properties of deployment-strategy resolution *)

Topologies == {"hybrid", "ssr", "opennext", "static", "unknown"}

HasServerEntry(d) == "_worker.js/index.js" \in d.buildFiles
HasRootIndex(d) == "index.html" \in d.buildFiles
AdapterOutputPresent(d) == d.FRAMEWORK = "opennext" /\ d.openNext.exists

Dispatched(d) ==
    /\ d.impl = "bash"
    /\ d.phase = "done"
    /\ d.status \notin {"exit:wrangler-install", "exit:not-logged-in"}

\* C9: once deploy_to_cloudflare reaches its dispatch, exactly one topology
\* handler is selected, by first match in the order hybrid, SSR,
\* adapter-managed, static, unknown; an artifact with both a server entry
\* and index.html is never resolved as SSR, by the dispatch or by
\* AstroBuilder.determineDeploymentType.
C9_DispatchPriority ==
    LET d == deployment IN
    /\ Dispatched(d) =>
        /\ d.handler \in Topologies
        /\ (HasServerEntry(d) /\ HasRootIndex(d)) => d.handler = "hybrid"
        /\ (HasServerEntry(d) /\ ~HasRootIndex(d)) => d.handler = "ssr"
        /\ (~HasServerEntry(d) /\ AdapterOutputPresent(d)) => d.handler = "opennext"
        /\ (~HasServerEntry(d) /\ ~AdapterOutputPresent(d) /\ HasRootIndex(d))
              => d.handler = "static"
        /\ (~HasServerEntry(d) /\ ~AdapterOutputPresent(d) /\ ~HasRootIndex(d))
              => d.handler = "unknown"
    /\ (d.impl # "bash" /\ d.phase = "done" /\ d.FRAMEWORK = "astro"
            /\ HasServerEntry(d) /\ HasRootIndex(d))
        => d.deploymentType = "hybrid"

C9_Witness ==
    /\ Dispatched(deployment)
    /\ HasServerEntry(deployment) /\ HasRootIndex(deployment)
    /\ deployment.FRAMEWORK = "opennext" /\ deployment.openNext.exists
    /\ deployment.handler = "hybrid"
    /\ Len(deployment.cliCalls) = 1

\* C10: an artifact with both the server entry and a root index.html is
\* resolved as hybrid and deployed from a scratch directory whose files
\* include neither _worker.js nor _routes.json.
C10_HybridIsolated ==
    LET d == deployment IN
    ( /\ d.phase = "done"
      /\ d.impl = "bash" \/ d.FRAMEWORK = "astro"
      /\ HasServerEntry(d) /\ HasRootIndex(d)
      /\ d.cliCalls # <<>> )
    => /\ d.impl = "bash" => d.handler = "hybrid"
       /\ d.impl # "bash" => d.deploymentType = "hybrid"
       /\ \A i \in 1..Len(d.cliCalls) :
            /\ d.cliCalls[i].cwd = "scratch"
            /\ \A f \in d.cliCalls[i].files : TopEntry(f) # "_worker.js" /\ f # "_routes.json"

\* The part of C10 that workers.sh alone satisfies.
C10_HybridIsolatedInBash == deployment.impl = "bash" => C10_HybridIsolated

\* The framework's emitted server entry, relative to the scratch directory
\* (workers.sh) or to the project directory (generateWranglerConfig).
EmittedServerEntry(d) ==
    IF d.impl = "bash" THEN "_worker.js/index.js" ELSE "buildDir/_worker.js/index.js"

PureSsrArtifact(d) == HasServerEntry(d) /\ ~HasRootIndex(d)

IncompleteAdapterOutput(d) ==
    /\ Dispatched(d)
    /\ d.FRAMEWORK = "opennext"
    /\ d.openNext.exists
    /\ "worker.js" \notin d.openNext.files

BuildIncomplete(d) ==
    /\ d.status = "exit:opennext-incomplete"
    /\ d.cliCalls = <<>>
    /\ d.handler \notin {"static", "unknown"}

\* C12 as stated: with the adapter hint and an .open-next directory that
\* lacks worker.js, resolution ends with the build-incomplete error and no
\* deployment is attempted.
C12_IncompleteAdapterBuild ==
    IncompleteAdapterOutput(deployment) => BuildIncomplete(deployment)

\* C12, amended: the same, when the directory holds no _worker.js/index.js
\* (the hybrid and SSR signatures are tested before the adapter hint).
C12_IncompleteAdapterBuildNoServerEntry ==
    (IncompleteAdapterOutput(deployment) /\ ~HasServerEntry(deployment))
        => BuildIncomplete(deployment)

C12_Witness ==
    /\ IncompleteAdapterOutput(deployment)
    /\ ~HasServerEntry(deployment)
    /\ HasRootIndex(deployment)
    /\ deployment.handler = "opennext"
    /\ deployment.status = "exit:opennext-incomplete"

\* C13: the adapter-managed and static handlers create no scratch directory
\* and run the deployment CLI from the project directory.
C13_AdapterAndStaticInPlace ==
    LET d == deployment IN
    (Dispatched(d) /\ d.handler \in {"opennext", "static"}) =>
        /\ d.tempDir.state = "none"
        /\ \A i \in 1..Len(d.cliCalls) : d.cliCalls[i].cwd = "project"

\* The part of C13 that deploy_static_build satisfies.
C13_StaticInPlace ==
    deployment.handler = "static" => C13_AdapterAndStaticInPlace

\* C14: when a deploy handler has ended, on any exit path, the scratch
\* directory it created no longer exists.
C14_ScratchRemovedOnEveryExit ==
    LET d == deployment IN
    (Dispatched(d) /\ d.handler \in {"hybrid", "ssr", "opennext"}) =>
        d.tempDir.state # "exists"

\* The exit paths of C14 on which the CLI was invoked.
C14_ScratchRemovedAfterDeploy ==
    deployment.cliCalls # <<>> => C14_ScratchRemovedOnEveryExit

----------------------------------------------------------------------------
(* Properties of the pipeline *)

FailingSteps == {"install", "environment", "configure", "build", "deploy"}

\* A step of QuickDeploy.deploy() that failed ended the run there.
C15_PipelineStopsAtFailure ==
    (run.outcome # "none" /\ run.error \in FailingSteps) =>
        /\ run.outcome = "failure"
        /\ run.active = {}
        /\ Last(run.started) = run.error
        /\ run.exitCode \in {NoExitCode, 1}

\* C15: a failed step (install, configure, build, deploy) is the last step
\* of its run and the run ends as a failure; a failed invocation of the
\* deployment CLI never ends as a success, in QuickDeploy.deploy() or in
\* the handlers of workers.sh.
C15_FailureEndsRun ==
    /\ C15_PipelineStopsAtFailure
    /\ (deployment.phase = "done" /\ deployment.impl = "bash"
            /\ deployment.cliCalls # <<>> /\ deployment.status # "success")
        => ReturnStatus(deployment) # 0

\* C16: the steps of one run begin in the order detect, install, configure,
\* build, resolve, deploy, each after the one before it has ended: at most
\* one step is in progress, and it is the last one begun.
C16_StepsOrderedNoOverlap ==
    run.outcome # "none" =>
        /\ Cardinality(run.active) <= 1
        /\ run.active # {} => run.active = {Last(run.started)}
        /\ \A i, j \in 1..Len(run.started) :
              i < j => StepIndex(run.started[i]) < StepIndex(run.started[j])

C16_Witness ==
    /\ run.outcome = "success"
    /\ run.impl = "detector"
    /\ run.started = <<"detect", "install", "configure", "build", "resolve", "deploy">>

NoFrameworkDetected(r) ==
    \/ r.error \in {"NoFramework", "UnknownFramework"}
    \/ r.framework = "unknown"

\* C17: a run in which detection yields no framework begins no step after
\* detection and ends in a failure whose message lists the supported
\* variants.
C17_NoFrameworkStopsRun ==
    (run.outcome # "none" /\ NoFrameworkDetected(run)) =>
        /\ run.started = <<"detect">>
        /\ run.outcome # "running" => (run.outcome = "failure" /\ run.supported # {})

\* The part of C17 that QuickDeploy over FrameworkDetector satisfies.
C17_DetectorStopsAtDetection ==
    (run.outcome # "none" /\ run.impl = "detector") => C17_NoFrameworkStopsRun

\* The runs that have ended, with the error they ended with and their
\* exit code.
EndedRuns ==
    run.earlier \cup
        (IF run.exitCode # NoExitCode
         THEN {[error |-> run.error, exitCode |-> run.exitCode]} ELSE {})

MonorepoErrors == {"MonorepoQuit", "ExampleNotFound", "FrameworkSource"}

\* C18: a run that ended because no framework was detected and a run that
\* ended at an ambiguous monorepo root have exit codes that are non-zero
\* and different.
C18_DistinctExitCodes ==
    run.outcome # "none" =>
        \A a, b \in EndedRuns :
            (a.error \in {"NoFramework", "UnknownFramework"} /\ b.error \in MonorepoErrors) =>
                /\ a.exitCode # 0
                /\ b.exitCode # 0
                /\ a.exitCode # b.exitCode

----------------------------------------------------------------------------
(* Properties of the generated serving manifest *)

\* The deployment types framework's builder can report.
TypesOf(framework) ==
    {BuilderDeploymentType(framework, files) : files \in SUBSET ArtifactFiles}

\* The manifest each deployer generates for a framework resolved to a type.
GeneratedManifest(impl, framework, type) ==
    IF impl = "deployer" THEN generateConfigForFramework(framework, type)[1]
    ELSE generateWranglerConfig(type)

GeneratedByDeployer(d) ==
    /\ d.phase = "done"
    /\ d.impl \in {"deployer", "deployer-by-type"}
    /\ d.cliCalls # <<>>
    /\ d.manifest = GeneratedManifest(d.impl, d.FRAMEWORK, d.deploymentType)

\* C19: the flag list and the binding name of a generated manifest are
\* those the same deployer generates for every framework resolved to the
\* same deployment type.
C19_FlagsFixedPerType ==
    LET d == deployment IN
    GeneratedByDeployer(d) =>
        \A other \in BuilderFrameworks :
            d.deploymentType \in TypesOf(other) =>
                LET m == GeneratedManifest(d.impl, other, d.deploymentType)
                IN  /\ m.flags = d.manifest.flags
                    /\ m.binding = d.manifest.binding

\* The part of C19 that generateWranglerConfig satisfies.
C19_FlagsFixedPerTypeByType ==
    deployment.phase = "done" =>
        (deployment.impl = "deployer-by-type" => C19_FlagsFixedPerType)

UnknownLayout(d) ==
    /\ ~HasServerEntry(d)
    /\ ~HasRootIndex(d)
    /\ ~AdapterOutputPresent(d)

\* An artifact that reached resolution: the dispatch of workers.sh, or
\* AstroBuilder.determineDeploymentType followed by a deployer.
Resolved(d) ==
    /\ d.phase = "done"
    /\ \/ Dispatched(d)
       \/ d.impl # "bash" /\ d.FRAMEWORK = "astro" /\ d.cliCalls # <<>>

\* C20: for an artifact with no server entry, no root index.html and no
\* adapter output, resolution does not fail: the unrecognized structure is
\* warned about and an asset-only deployment is attempted.
C20_UnknownLayoutBestEffort ==
    LET d == deployment IN
    (Resolved(d) /\ UnknownLayout(d)) =>
        /\ "Unknown build structure" \in d.warnings
        /\ Len(d.cliCalls) = 1
        /\ d.cliCalls[1].main = ""
        /\ d.status \in {"success", "failed", "exit:could-not-deploy"}

\* The part of C20 that deploy_unknown_build satisfies.
C20_UnknownLayoutInBash ==
    deployment.phase = "done" =>
        (deployment.impl = "bash" => C20_UnknownLayoutBestEffort)

----------------------------------------------------------------------------
(* Properties of the static topology *)

StaticArtifact(d) ==
    /\ HasRootIndex(d)
    /\ ~HasServerEntry(d)
    /\ ~AdapterOutputPresent(d)

\* C21: an artifact with a root index.html, no server entry and no adapter
\* output is resolved as static and deployed by one asset-only upload of
\* the build directory, run in the project directory with no scratch
\* directory.
C21_StaticAssetOnlyInPlace ==
    LET d == deployment IN
    (Dispatched(d) /\ StaticArtifact(d)) =>
        /\ d.handler = "static"
        /\ d.tempDir = NoTempDir
        /\ Len(d.cliCalls) = 1
        /\ d.cliCalls[1].args = "deploy --assets"
        /\ d.cliCalls[1].cwd = "project"
        /\ d.cliCalls[1].main = ""
        /\ d.cliCalls[1].files = d.buildFiles

C21_Witness ==
    /\ Dispatched(deployment)
    /\ StaticArtifact(deployment)
    /\ "_routes.json" \in deployment.buildFiles
    /\ deployment.handler = "static"
    /\ deployment.status = "success"

----------------------------------------------------------------------------
(* Properties of detection, continued *)

\* C22: a step in which detect() runs from start to end leaves every file
\* and directory of the project as it was, whatever the result.
C22_DetectReadOnly ==
    [][Len(results') = Len(results) + 1 => dir' = dir]_vars

C22_Witness ==
    /\ Len(results) = 2
    /\ results[1].kind = "framework"
    /\ results[1].name = "static"
    /\ results[2].kind = "framework"

\* The frameworks the README lists as detected automatically, under the
\* identifiers of ProjectAnalyzer.
ReadmeFrameworks == {"nextjs", "astro", "vite", "nuxt", "svelte", "remix"}

OwnConfigFiles(framework) ==
    CASE framework = "vite"   -> SeqRange(DetectionConfigFiles("react"))
      [] framework = "nuxt"   -> {"nuxt.config.js", "nuxt.config.ts"}
      [] OTHER                -> SeqRange(DetectionConfigFiles(framework))

OwnDependencies(framework) ==
    CASE framework = "nextjs" -> {"next"}
      [] framework = "astro"  -> {"astro"}
      [] framework = "vite"   -> {"vite"}
      [] framework = "nuxt"   -> {"nuxt"}
      [] framework = "svelte" -> {"@sveltejs/kit"}
      [] OTHER                -> {"@remix-run/node", "@remix-run/react"}

Carries(d, framework) ==
    \/ d.files \cap OwnConfigFiles(framework) # {}
    \/ d.deps \cap OwnDependencies(framework) # {}

IsAnalyzeResult(r) == r.kind \in {"analyzed", "error", "exit"}

\* C23: in a project that carries a config file or a dependency of one of
\* the six README frameworks, and of no other of them except possibly
\* vite, every analyze() classifies the project as that framework.
C23_ReadmeFrameworksDetected ==
    \A framework \in ReadmeFrameworks :
        ( /\ dir.manifest = "ok"
          /\ ~isMonorepoRoot(dir)
          /\ Carries(dir, framework)
          /\ \A other \in ReadmeFrameworks \ {framework, "vite"} : ~Carries(dir, other) )
        => \A i \in 1..Len(results) :
              IsAnalyzeResult(results[i]) =>
                  (results[i].kind = "analyzed" /\ results[i].name = framework)

\* The part of C23 that holds: the config files tested before vite.config.*.
C23_AstroAndNextConfigDetected ==
    (dir.files \cap (OwnConfigFiles("astro") \cup OwnConfigFiles("nextjs")) # {})
        => C23_ReadmeFrameworksDetected

MatchedDependencies(name, d) == d.deps \cap SeqRange(DetectionDependencies(name))

HasConfigFile(name, d) ==
    \E i \in 1..Len(DetectionConfigFiles(name)) : pathExists(d, DetectionConfigFiles(name)[i])

Scored == dir.manifest = "ok" /\ results # <<>> /\ \A i \in 1..Len(results) : IsDetectResult(results[i])

\* C24: the score detect() computed for each variant is one weight of the
\* variant times the number of its dependencies present, plus 100 once
\* when one of its config files exists; it is zero exactly when the
\* variant has no signal.
C24_ScoreIsWeightedSum ==
    Scored =>
        \A name \in ScoredFrameworks :
            LET score == scoreFramework(name, readPackageJson(dir), dir)
                config == IF HasConfigFile(name, dir) THEN ConfigFileWeight ELSE 0
            IN  /\ \E weight \in 1..200 :
                      score = weight * Cardinality(MatchedDependencies(name, dir)) + config
                /\ score >= 0
                /\ score = 0 <=> ~HasSignal(name, dir)

\* The part of C24 that holds: the config-file weight is added once and
\* the score is zero exactly when the variant has no signal.
C24_ConfigOnceZeroWithoutSignal ==
    Scored =>
        \A name \in ScoredFrameworks :
            LET score == scoreFramework(name, readPackageJson(dir), dir)
                deps == SumDependencies(name, DetectionDependencies(name), dir.deps)
            IN  /\ score - deps = (IF HasConfigFile(name, dir) THEN ConfigFileWeight ELSE 0)
                /\ score >= 0
                /\ score = 0 <=> ~HasSignal(name, dir)

----------------------------------------------------------------------------
(* Properties of CloudflareDeployer *)

AlwaysOverwritten == {"nextjs", "astro", "nuxt"}

DeployerStep ==
    /\ deployment.phase = "built"
    /\ deployment.impl = "deployer"
    /\ deployment'.phase = "done"
    /\ deployment'.cliCalls # <<>>

----------------------------------------------------------------------------
(* Dependency installation: DependencyManager.ts and package-manager.sh *)

InstallCommands ==
    [npm |-> "npm install", pnpm |-> "pnpm install",
     yarn |-> "yarn install", bun |-> "bun install"]

PromptChoices == {"1", "2", "3", "other"}

\* The first lockfile found names the package manager.
DependencyManager_detectPackageManager(files) ==
    IF "pnpm-lock.yaml" \in files THEN "pnpm"
    ELSE IF "yarn.lock" \in files THEN "yarn"
    ELSE IF "bun.lockb" \in files THEN "bun"
    ELSE "npm"

\* What the preparation of an installation leaves behind: the manager that
\* the install command is taken from, whether a fallback to npm was
\* announced, the commands now on the PATH and the error thrown, if any.
Prepared(manager, announced, commands, error) ==
    [manager |-> manager, announced |-> announced, commands |-> commands, error |-> error]

\* volta install pnpm or npm install -g pnpm; a failure is caught and logged
\* as a fallback to npm.
installPnpm(env) ==
    IF env.globalInstallOk
    THEN Prepared("pnpm", FALSE, env.commands \cup {"pnpm"}, "")
    ELSE Prepared("pnpm", TRUE, env.commands, "")

installYarn(env) ==
    IF env.globalInstallOk
    THEN Prepared("yarn", FALSE, env.commands \cup {"yarn"}, "")
    ELSE Prepared("yarn", TRUE, env.commands, "")

handleMissingPnpm(env) ==
    IF "npm" \notin env.commands THEN Prepared("pnpm", FALSE, env.commands, "NoPackageManager")
    ELSE CASE env.choice = "1" -> installPnpm(env)
           [] env.choice = "2" -> Prepared("pnpm", TRUE, env.commands, "")
           [] env.choice = "3" -> Prepared("pnpm", FALSE, env.commands, "UserExit")
           [] OTHER            -> Prepared("pnpm", TRUE, env.commands, "")

\* The parameter packageManager is only read: no branch assigns it.
handlePackageManagerSpecificIssues(packageManager, env) ==
    CASE packageManager = "pnpm" /\ "pnpm" \notin env.commands -> handleMissingPnpm(env)
      [] packageManager = "yarn" /\ "yarn" \notin env.commands -> installYarn(env)
      [] packageManager = "bun" /\ "bun" \notin env.commands ->
            Prepared("bun", FALSE, env.commands, "BunMissing")
      [] OTHER -> Prepared(packageManager, FALSE, env.commands, "")

\* An installation as it ends: the install commands executed, in order.
Installed(p, executed, announced, outcome, error) ==
    [manager |-> p.manager, announced |-> announced, commands |-> p.commands,
     executed |-> executed, outcome |-> outcome, error |-> error]

\* npm install run as a replacement; its failure leaves install() as an error.
NpmInstead(p, executed, announced) ==
    IF "npm" \in p.commands
    THEN Installed(p, Append(executed, InstallCommands["npm"]), announced, "installed", "")
    ELSE Installed(p, Append(executed, InstallCommands["npm"]), announced, "failed", "InstallFailed")

enableCorepack(p, executed, env) ==
    IF env.corepackOk
    THEN Installed(p, Append(executed, InstallCommands["yarn"]), p.announced, "installed", "")
    ELSE NpmInstead(p, executed, TRUE)

handleYarnCorepackIssue(p, executed, env) ==
    CASE env.yarnChoice = "1" -> enableCorepack(p, executed, env)
      [] env.yarnChoice = "2" -> NpmInstead(p, executed, p.announced)
      [] env.yarnChoice = "3" -> Installed(p, executed, p.announced, "failed", "UserExit")
      [] OTHER                -> NpmInstead(p, executed, TRUE)

\* The Corepack mismatch is reported by a yarn binary that ran.
handleInstallFailure(p, executed, error, env) ==
    IF p.manager = "yarn" /\ "yarn" \in p.commands /\ error = "InstallFailed" /\ env.corepackError
    THEN handleYarnCorepackIssue(p, executed, env)
    ELSE Installed(p, executed, p.announced, "failed", error)

\* DependencyManager.install(): commands[packageManager] is executed for the
\* manager that detectPackageManager returned.
DependencyManager_install(env) ==
    LET packageManager == DependencyManager_detectPackageManager(env.files)
        h == handlePackageManagerSpecificIssues(packageManager, env)
        p == [h EXCEPT !.manager = packageManager]
        command == InstallCommands[packageManager]
    IN  IF p.error # "" THEN handleInstallFailure(p, <<>>, p.error, env)
        ELSE IF packageManager \in p.commands /\ env.execOk
             THEN Installed(p, <<command>>, p.announced, "installed", "")
             ELSE handleInstallFailure(p, <<command>>, "InstallFailed", env)

\* package-manager.sh: a binary found on the PATH answers --version in time.
Responds(pm, env) == pm \in env.commands /\ env.responsive

install_pnpm(env) ==
    IF env.globalInstallOk
    THEN Prepared("pnpm", FALSE, env.commands \cup {"pnpm"}, "")
    ELSE Prepared("npm", TRUE, env.commands, "")

handle_missing_pnpm(env) ==
    IF ~Responds("npm", env) THEN Prepared("npm", FALSE, env.commands, "NoPackageManager")
    ELSE CASE env.choice = "1" -> install_pnpm(env)
           [] env.choice = "2" -> Prepared("npm", TRUE, env.commands, "")
           [] env.choice = "3" -> Prepared("npm", FALSE, env.commands, "UserExit")
           [] OTHER            -> Prepared("npm", TRUE, env.commands, "")

handle_missing_yarn(env) ==
    IF "npm" \in env.commands /\ env.globalInstallOk
    THEN Prepared("yarn", FALSE, env.commands \cup {"yarn"}, "")
    ELSE Prepared("npm", TRUE, env.commands, "")

\* A manager installed a moment ago answers; one that was on the PATH
\* answers when the others do.
verify_package_manager(p, env) ==
    LET answers == (p.manager \in p.commands \ env.commands) \/ Responds(p.manager, env) IN
    IF p.error # "" \/ answers THEN p
    ELSE CASE p.manager \in {"pnpm", "yarn"} -> [p EXCEPT !.manager = "npm", !.announced = TRUE]
           [] p.manager = "bun"             -> [p EXCEPT !.error = "BunMissing"]
           [] OTHER                         -> [p EXCEPT !.error = "NoPackageManager"]

setup_package_manager(env) ==
    LET chosen ==
          IF "pnpm-lock.yaml" \in env.files
          THEN IF "pnpm" \in env.commands
               THEN IF env.responsive THEN Prepared("pnpm", FALSE, env.commands, "")
                    ELSE Prepared("npm", TRUE, env.commands, "")
               ELSE handle_missing_pnpm(env)
          ELSE IF "yarn.lock" \in env.files
          THEN IF "yarn" \in env.commands
               THEN IF env.responsive THEN Prepared("yarn", FALSE, env.commands, "")
                    ELSE Prepared("npm", TRUE, env.commands, "")
               ELSE handle_missing_yarn(env)
          ELSE IF "bun.lockb" \in env.files
          THEN IF "bun" \in env.commands THEN Prepared("bun", FALSE, env.commands, "")
               ELSE Prepared("npm", FALSE, env.commands, "BunMissing")
          ELSE Prepared("npm", FALSE, env.commands, "")
    IN  verify_package_manager(chosen, env)

\* install_dependencies: the status of `yarn install | tee` is tee's, so a
\* failing yarn install is not noticed.
install_dependencies(p, env) ==
    LET command == InstallCommands[p.manager] IN
    IF p.manager = "yarn" \/ env.execOk
    THEN Installed(p, <<command>>, p.announced, "installed", "")
    ELSE Installed(p, <<command>>, p.announced, "failed", "InstallFailed")

InstallEnvironments ==
    [files          : {{}, {"pnpm-lock.yaml"}, {"yarn.lock"}, {"bun.lockb"},
                       {"pnpm-lock.yaml", "yarn.lock"}},
     commands       : SUBSET {"npm", "pnpm", "yarn", "bun"},
     responsive     : BOOLEAN,
     choice         : PromptChoices,
     yarnChoice     : PromptChoices,
     globalInstallOk : BOOLEAN,
     execOk         : BOOLEAN,
     corepackError  : BOOLEAN,
     corepackOk     : BOOLEAN]

InitInstall ==
    /\ cwd = "."
    /\ FRAMEWORKS = DeclaredFrameworks
    /\ results = <<>>
    /\ chdirs = 0
    /\ deployment = Idle
    /\ \E impl \in {"DependencyManager", "package-manager.sh"}, env \in InstallEnvironments :
        /\ dir = [manifest |-> "ok", deps |-> {}, files |-> env.files]
        /\ run = [impl |-> impl, env |-> env, outcome |-> "start", manager |-> "npm",
               announced |-> FALSE, commands |-> env.commands, executed |-> <<>>,
               error |-> ""]

Finish(r, i) ==
    [r EXCEPT !.manager = i.manager, !.announced = i.announced, !.commands = i.commands,
              !.executed = i.executed, !.outcome = i.outcome, !.error = i.error]

\* await this.dependencyManager.install()
Install ==
    /\ run.outcome = "start"
    /\ run.impl = "DependencyManager"
    /\ run' = Finish(run, DependencyManager_install(run.env))
    /\ UNCHANGED <<cwd, dir, FRAMEWORKS, results, chdirs, deployment>>

SetupPackageManager ==
    /\ run.outcome = "start"
    /\ run.impl = "package-manager.sh"
    /\ LET p == setup_package_manager(run.env) IN
        run' = [run EXCEPT !.manager = p.manager, !.announced = p.announced,
                           !.commands = p.commands, !.error = p.error,
                           !.outcome = IF p.error = "" THEN "prepared" ELSE "failed"]
    /\ UNCHANGED <<cwd, dir, FRAMEWORKS, results, chdirs, deployment>>

InstallDependencies ==
    /\ run.outcome = "prepared"
    /\ run.impl = "package-manager.sh"
    /\ run' = Finish(run, install_dependencies(
                  Prepared(run.manager, run.announced, run.commands, run.error), run.env))
    /\ UNCHANGED <<cwd, dir, FRAMEWORKS, results, chdirs, deployment>>

NextInstall == Install \/ SetupPackageManager \/ InstallDependencies

SpecInstall == InitInstall /\ [][NextInstall]_vars

\* C26: whenever a fallback to npm was announced, the install commands that
\* the run executes are npm install only.
C26_FallbackRunsNpmInstall ==
    (run.outcome \in {"installed", "failed"} /\ run.announced)
        => (\A i \in 1..Len(run.executed) : run.executed[i] = InstallCommands["npm"])

\* C26 holds of package-manager.sh, which assigns PACKAGE_MANAGER="npm"
\* wherever it announces the fallback.
C26_FallbackRunsNpmInstallInBash ==
    (run.impl = "package-manager.sh" /\ run.outcome \in {"installed", "failed"} /\ run.announced)
        => (\A i \in 1..Len(run.executed) : run.executed[i] = InstallCommands["npm"])

----------------------------------------------------------------------------
(* Properties of the selection among scored variants *)

Declared(name) == CHOOSE i \in 1..Len(FrameworkOrder) : FrameworkOrder[i] = name

ScoreHere(name) == scoreFramework(name, readPackageJson(dir), dir)

TopScore(name) ==
    /\ ScoreHere(name) > 0
    /\ \A other \in ScoredFrameworks : ScoreHere(other) <= ScoreHere(name)

\* C27: when some non-static variant scores above zero, detect() returns a
\* variant of the highest score, and among several of that score the one
\* declared earliest in FRAMEWORKS.
C27_HighestScoreEarliestDeclared ==
    (readPackageJson(dir).isNull = FALSE /\ \E name \in ScoredFrameworks : ScoreHere(name) > 0)
        => \A i \in 1..Len(results) :
              /\ results[i].kind = "framework"
              /\ results[i].name \in ScoredFrameworks
              /\ TopScore(results[i].name)
              /\ \A other \in ScoredFrameworks :
                    TopScore(other) => Declared(results[i].name) <= Declared(other)

C27_Witness ==
    /\ results # <<>>
    /\ \E a, b \in ScoredFrameworks :
          /\ Declared(a) < Declared(b)
          /\ TopScore(a) /\ TopScore(b)
          /\ results[1].name = a

\* C28: a run of QuickDeploy.deploy() in which detect() returned a variant
\* does not fail because BuilderFactory.create has no case for its name.
C28_DetectedVariantHasBuilder ==
    (run.outcome # "none" /\ run.impl = "detector" /\ run.framework \in FrameworkNames)
        => run.error # "UnsupportedFramework"

\* The part of C28 that holds: the eight scored variants have a builder.
C28_ScoredVariantHasBuilder ==
    /\ ScoredFrameworks \subseteq BuilderNames
    /\ (run.outcome # "none" /\ run.impl = "detector" /\ run.framework \in ScoredFrameworks)
          => run.error # "UnsupportedFramework"

----------------------------------------------------------------------------
(* Properties of the CLI invocations *)

\* C29: in one run the deployment CLI is invoked at most once, whatever
\* handler was selected and however the deployment ended.
C29_CliInvokedAtMostOnce == Len(deployment.cliCalls) <= 1

\* C29 holds of every handler but deploy_ssr_build, and of a failed
\* deployment in every handler.
C29_CliInvokedOnceOutsideSsrSuccess ==
    (deployment.phase = "done" /\ ~(deployment.handler = "ssr" /\ deployment.status = "success"))
        => Len(deployment.cliCalls) <= 1

\* The CLI was started with a configuration generated for a framework
\* whose generation creates .assetsignore.
StartsAssetsIgnore(d) ==
    /\ d.impl = "deployer"
    /\ d.cliCalls # <<>>
    /\ d.manifest = generateConfigForFramework(d.FRAMEWORK, d.deploymentType)[1]
    /\ \/ d.FRAMEWORK = "astro" /\ d.deploymentType \in {"ssr", "hybrid"}
       \/ d.FRAMEWORK = "remix"

\* C30: when CloudflareDeployer.deploy starts the CLI for astro (ssr or
\* hybrid) or remix, the write of .assetsignore has completed or its
\* failure has been logged.
C30_AssetsIgnoreSettledBeforeCli ==
    StartsAssetsIgnore(deployment) => deployment.assetsIgnore \in {"written", "failed"}

\* The part of C30 that holds: the write was started before the CLI, for
\* these frameworks and no other.
C30_AssetsIgnoreStartedBeforeCli ==
    (deployment.impl = "deployer" /\ deployment.cliCalls # <<>>)
        => (deployment.assetsIgnore # "none" <=> StartsAssetsIgnore(deployment))

====
